---- MODULE Spec2Model ----
(***************************************************************************)
(* Model of the parallel analysis engine of video-analytics                *)
(* (src/video_analytics/core/parallel_analyzer.py) together with the       *)
(* parts of ProcessedFile and of the three analyzers it depends on.        *)
(*                                                                         *)
(* One engine (one ParallelConfig, one MetadataCache) serves a bounded     *)
(* number of analyze_all calls.  A call runs on the event loop up to its   *)
(* await, the task coroutines and the worker threads then interleave, and  *)
(* the call ends by returning a CombinedAnalysis or by raising.            *)
(* task_timeout is taken to be positive (its default is 3600.0), so every  *)
(* task coroutine has started before the timer can fire.                   *)
(***************************************************************************)
EXTENDS Integers, Sequences, FiniteSets, TLC

\* ------------------------------------------------------------------ bounds
MaxRuns == 2
\* largest task counter and largest execution time (seconds) given to the
\* derived figures of CombinedAnalysis
MaxCount == 7
MaxExecTime == 90
\* durations given to create_fast_config lie within MaxDelta seconds of one
\* of its breakpoints
MaxDelta == 1
\* largest value given to --max-workers
MaxWorkersFlag == 4
\* longest of the short files whose samples are enumerated one by one
MaxDuration == 41
\* download cache: the size limit, the largest file and the last clock tick
max_size_bytes == 3
MaxFileSize == 2
MaxClock == 4
\* HLS: most segments of a playlist
MaxSegments == 3

\* ------------------------------------------------------------- vocabulary
Aspects == <<"video", "audio", "fps">>
AspectSet == {"video", "audio", "fps"}

Paths == {"a.mp4", "b.mp4"}
Handles == {1, 2, 3}
\* ProcessedFile.file_path of each handle: handles 1 and 2 name the same file
HandlePath == <<"a.mp4", "a.mp4", "b.mp4">>

\* frame rates as ffprobe prints them, "num/den"
Rate(n, d) == <<n, d>>
ZeroFps == Rate(0, 1)

\* what ffmpeg.probe finds on disk
Probe(rd, dur, v, a, avg, r) ==
    [readable |-> rd, duration |-> dur, video |-> v, audio |-> a,
     avg_frame_rate |-> avg, r_frame_rate |-> r]

FileKinds ==
    { Probe(TRUE, 20, TRUE, TRUE, Rate(30, 1), Rate(30, 1)),   \* both streams
      Probe(TRUE, 20, TRUE, FALSE, Rate(0, 0), Rate(25, 1)),   \* video only
      Probe(TRUE, 20, FALSE, TRUE, Rate(0, 0), Rate(0, 0)),    \* audio only
      Probe(TRUE, 20, TRUE, TRUE, Rate(0, 0), Rate(1000, 1)),  \* no usable rate
      Probe(TRUE, 0, TRUE, TRUE, Rate(30, 1), Rate(30, 1)),    \* zero duration
      Probe(TRUE, 20, FALSE, FALSE, Rate(0, 0), Rate(0, 0)),   \* no streams
      Probe(FALSE, 0, FALSE, FALSE, Rate(0, 0), Rate(0, 0)) }  \* probe fails

OtherKinds ==
    { Probe(TRUE, 20, TRUE, TRUE, Rate(30, 1), Rate(30, 1)) }

Disks == { d \in [Paths -> FileKinds] : d["b.mp4"] \in OtherKinds }

Configs ==
    [enable_video : BOOLEAN, enable_audio : BOOLEAN, enable_fps : BOOLEAN,
     enable_metadata_sharing : BOOLEAN]

\* ------------------------------------------------------------ ProcessedFile
NoMeta == [file_path |-> "None", duration |-> 0, video_codec |-> "",
           audio_codec |-> "", fps |-> ZeroFps]

\* 0.1 <= num/den <= 240, a zero denominator giving 0.0
InFpsRange(rate) ==
    /\ rate[2] # 0
    /\ 10 * rate[1] >= rate[2]
    /\ rate[1] <= 240 * rate[2]

_parse_fps(stream) ==
    IF stream.avg_frame_rate # Rate(0, 0) /\ InFpsRange(stream.avg_frame_rate)
    THEN stream.avg_frame_rate
    ELSE IF InFpsRange(stream.r_frame_rate)
         THEN stream.r_frame_rate
         ELSE ZeroFps

_extract_metadata(p, probe) ==
    [file_path |-> p,
     duration |-> probe.duration,
     video_codec |-> IF probe.video THEN "h264" ELSE "",
     audio_codec |-> IF probe.audio THEN "aac" ELSE "",
     fps |-> IF probe.video THEN _parse_fps(probe) ELSE ZeroFps]

\* load_metadata on a handle whose metadata field is m: the outcome, the
\* metadata field afterwards and the number of probes it ran
load_metadata(m, p, probe) ==
    IF m # NoMeta
    THEN [ok |-> TRUE, metadata |-> m, probes |-> 0]
    ELSE IF probe.readable
         THEN [ok |-> TRUE, metadata |-> _extract_metadata(p, probe), probes |-> 1]
         ELSE [ok |-> FALSE, metadata |-> NoMeta, probes |-> 1]

\* ------------------------------------------------------------ MetadataCache
\* variant: the handle's metadata is loaded on a hit as well
get_or_load_AlwaysLoad(c, m, p, probe) ==
    LET l == load_metadata(m, p, probe)
    IN IF c[p] # NoMeta
       THEN [ok |-> TRUE, metadata |-> c[p], cache |-> c,
             handle |-> IF l.ok THEN l.metadata ELSE m, probes |-> l.probes]
       ELSE IF l.ok
            THEN [ok |-> TRUE, metadata |-> l.metadata,
                  cache |-> [c EXCEPT ![p] = l.metadata],
                  handle |-> l.metadata, probes |-> l.probes]
            ELSE [ok |-> FALSE, metadata |-> NoMeta, cache |-> c,
                  handle |-> m, probes |-> l.probes]

\* variant: a hit stores the handle's metadata field under the path again
get_or_load_Restore(c, m, p, probe) ==
    IF c[p] # NoMeta
    THEN [ok |-> TRUE, metadata |-> c[p], cache |-> [c EXCEPT ![p] = m],
          handle |-> m, probes |-> 0]
    ELSE LET l == load_metadata(m, p, probe)
         IN IF l.ok
            THEN [ok |-> TRUE, metadata |-> l.metadata,
                  cache |-> [c EXCEPT ![p] = l.metadata],
                  handle |-> l.metadata, probes |-> l.probes]
            ELSE [ok |-> FALSE, metadata |-> NoMeta, cache |-> c,
                  handle |-> m, probes |-> l.probes]

\* variant: a failed load leaves an empty entry under the path
get_or_load_CacheFailure(c, m, p, probe) ==
    IF c[p] # NoMeta
    THEN [ok |-> TRUE, metadata |-> c[p], cache |-> c, handle |-> m, probes |-> 0]
    ELSE LET l == load_metadata(m, p, probe)
         IN IF l.ok
            THEN [ok |-> TRUE, metadata |-> l.metadata,
                  cache |-> [c EXCEPT ![p] = l.metadata],
                  handle |-> l.metadata, probes |-> l.probes]
            ELSE [ok |-> FALSE, metadata |-> NoMeta,
                  cache |-> [c EXCEPT ![p] = [NoMeta EXCEPT !.file_path = p]],
                  handle |-> m, probes |-> l.probes]

\* get_or_load on cache c for a handle with path p and metadata field m
get_or_load(c, m, p, probe) ==
    IF c[p] # NoMeta
    THEN [ok |-> TRUE, metadata |-> c[p], cache |-> c, handle |-> m, probes |-> 0]
    ELSE LET l == load_metadata(m, p, probe)
         IN IF l.ok
            THEN [ok |-> TRUE, metadata |-> l.metadata,
                  cache |-> [c EXCEPT ![p] = l.metadata],
                  handle |-> l.metadata, probes |-> l.probes]
            ELSE [ok |-> FALSE, metadata |-> NoMeta, cache |-> c,
                  handle |-> m, probes |-> l.probes]

\* MetadataCache.clear
clear(c) == [p \in Paths |-> NoMeta]

\* ---------------------------------------------------------------- analyzers
\* ParallelConfig defaults handed to the analyzers by the engine
video_interval == 10
audio_interval == 15
fps_interval == 20

normalize_interval(interval, duration) ==
    IF duration > 7200 /\ interval < 30 THEN 30
    ELSE IF duration > 3600 /\ interval < 20 THEN 20
    ELSE interval

\* len(np.arange(0, duration, interval))
SampleCount(duration, interval) ==
    IF duration <= 0 THEN 0 ELSE (duration + interval - 1) \div interval

IntervalOf(t, m) ==
    CASE t = "video" -> normalize_interval(video_interval, m.duration)
      [] t = "audio" -> audio_interval
      [] t = "fps" -> fps_interval

\* variant: ensure_non_empty_sequence is not called
AnalyzerRaises_NoEmptyCheck(t, m) ==
    \/ t \in {"video", "fps"} /\ m.video_codec = ""
    \/ t = "audio" /\ m.audio_codec = ""
    \/ t = "fps" /\ m.fps[1] <= 0

\* the checks of analyze(): the stream, the declared rate, the data points
AnalyzerRaises(t, m) ==
    \/ t \in {"video", "fps"} /\ m.video_codec = ""
    \/ t = "audio" /\ m.audio_codec = ""
    \/ t = "fps" /\ m.fps[1] <= 0
    \/ SampleCount(m.duration, IntervalOf(t, m)) = 0

\* np.arange(0, duration, interval)
sample_times(duration, interval) ==
    [k \in 1..SampleCount(duration, interval) |-> (k - 1) * interval]

\* the data point appended for a timestamp: measured in the try branch, or
\* the fallback value in the except branch when the measurement raised
DataPoint(timestamp, failed) ==
    [timestamp |-> timestamp, fallback |-> failed]

\* variant: the except branch logs the failure and appends nothing
SamplingLoop_SkipFailed(times, fails) ==
    SelectSeq([k \in 1..Len(times) |-> DataPoint(times[k], (k - 1) \in fails)],
              LAMBDA dp : ~dp.fallback)

\* the loop over sample_times; fails holds the indexes whose measurement
\* raises
SamplingLoop(times, fails) ==
    [k \in 1..Len(times) |-> DataPoint(times[k], (k - 1) \in fails)]

\* analyze() of aspect t on metadata m
analyze(t, m, fails) ==
    IF \/ t \in {"video", "fps"} /\ m.video_codec = ""
       \/ t = "audio" /\ m.audio_codec = ""
       \/ t = "fps" /\ m.fps[1] <= 0
    THEN [outcome |-> "raised", data_points |-> <<>>, sample_interval |-> 0]
    ELSE LET interval == IntervalOf(t, m)
             data_points == SamplingLoop(sample_times(m.duration, interval), fails)
         IN IF Len(data_points) = 0
            THEN [outcome |-> "raised", data_points |-> <<>>, sample_interval |-> 0]
            ELSE [outcome |-> "ok", data_points |-> data_points,
                  sample_interval |-> interval]

\* ------------------------------------------------------------------ results
None == [aspect |-> "None", file_path |-> "None"]
Exc == [aspect |-> "Exception", file_path |-> "None"]
AspectResult(t, p) == [aspect |-> t, file_path |-> p]

\* _run_video_analysis / _run_audio_analysis / _run_fps_analysis: what the
\* task coroutine returns for the outcome oc of its analyzer
RunAnalysis(t, p, oc) ==
    IF oc = "raised" THEN None ELSE AspectResult(t, p)

\* the loop of _execute_parallel_tasks over the gathered results
ProcessedResults(rs) ==
    [i \in 1..Len(rs) |-> IF rs[i] = Exc THEN None ELSE rs[i]]

\* variant: the results gathered before the timeout are kept
TimeoutResults_Partial(rs) ==
    rs

\* the except branches of _execute_parallel_tasks
TimeoutResults(rs) ==
    [i \in 1..Len(rs) |-> None]

\* ---------------------------------------------------------------- analyze_all
Enabled(cfg, t) ==
    CASE t = "video" -> cfg.enable_video
      [] t = "audio" -> cfg.enable_audio
      [] t = "fps" -> cfg.enable_fps

\* variant: the audio condition tests the video codec as the other two do
Applicable_VideoOnly(t, sm) ==
    /\ sm # NoMeta
    /\ sm.video_codec # ""

\* the stream test of each aspect on shared_metadata (None is falsy)
Applicable(t, sm) ==
    /\ sm # NoMeta
    /\ IF t = "audio" THEN sm.audio_codec # "" ELSE sm.video_codec # ""

Included(cfg, sm, t) == Enabled(cfg, t) /\ Applicable(t, sm)

\* variant: a task is appended for every enabled aspect, applicable or not
BuildTasks_AllEnabled(cfg, sm) ==
    SelectSeq(Aspects, LAMBDA t : Enabled(cfg, t))

\* task_names, in the order the tasks are appended
BuildTasks(cfg, sm) ==
    SelectSeq(Aspects, LAMBDA t : Included(cfg, sm, t))

\* variant: the empty task list is not rejected
NoTasks_Never(ts) == FALSE

NoTasks(ts) == Len(ts) = 0

\* number of the conditions before position k that held: result_index there
ResultIndex(cfg, sm, k) ==
    Cardinality({j \in 1..(k - 1) : Included(cfg, sm, Aspects[j])})

\* variant: each field reads the slot of its own position, whatever was built
AssignedField_Positional(cfg, sm, results, k) ==
    IF Included(cfg, sm, Aspects[k]) /\ k <= Len(results)
    THEN results[k]
    ELSE None

\* variant: result_index is not advanced, every field reads the first slot
AssignedField_NoIndexAdvance(cfg, sm, results, k) ==
    IF Included(cfg, sm, Aspects[k])
    THEN results[1]
    ELSE None

\* the field of aspect number k after the three assignments
AssignedField(cfg, sm, results, k) ==
    IF Included(cfg, sm, Aspects[k])
    THEN results[ResultIndex(cfg, sm, k) + 1]
    ELSE None

\* variant: every gathered result counts as completed
CountCompleted_All(results) ==
    Len(results)

CountCompleted(results) ==
    Cardinality({i \in 1..Len(results) : results[i] # None})

CombinedAnalysis(cfg, p, sm, results) ==
    [file_path |-> p,
     duration |-> IF sm # NoMeta THEN sm.duration ELSE 0,
     shared_metadata |-> sm,
     tasks_completed |-> CountCompleted(results),
     tasks_failed |-> Len(results) - CountCompleted(results),
     video_analysis |-> AssignedField(cfg, sm, results, 1),
     audio_analysis |-> AssignedField(cfg, sm, results, 2),
     fps_analysis |-> AssignedField(cfg, sm, results, 3)]

\* ParallelConfig(): the defaults of every field
ParallelConfig ==
    [max_workers |-> 3,
     enable_video |-> TRUE, enable_audio |-> TRUE, enable_fps |-> TRUE,
     video_interval |-> video_interval,
     audio_interval |-> audio_interval,
     fps_interval |-> fps_interval,
     task_timeout |-> 3600,
     enable_metadata_sharing |-> TRUE,
     enable_result_streaming |-> FALSE]

WithIntervals(cfg, v, a, f) ==
    [cfg EXCEPT !.video_interval = v, !.audio_interval = a, !.fps_interval = f]

\* variant: the breakpoints themselves already widen the intervals
create_fast_config_Inclusive(duration) ==
    IF duration >= 14400 THEN WithIntervals(ParallelConfig, 60, 90, 120)
    ELSE IF duration >= 7200 THEN WithIntervals(ParallelConfig, 45, 60, 75)
    ELSE IF duration >= 3600 THEN WithIntervals(ParallelConfig, 30, 45, 60)
    ELSE ParallelConfig

create_fast_config(duration) ==
    IF duration > 14400 THEN WithIntervals(ParallelConfig, 60, 90, 120)
    ELSE IF duration > 7200 THEN WithIntervals(ParallelConfig, 45, 60, 75)
    ELSE IF duration > 3600 THEN WithIntervals(ParallelConfig, 30, 45, 60)
    ELSE ParallelConfig

create_detailed_config ==
    [WithIntervals(ParallelConfig, 5, 10, 15) EXCEPT !.task_timeout = 3600]

create_memory_optimized_config ==
    [ParallelConfig EXCEPT !.max_workers = 2,
                           !.enable_metadata_sharing = TRUE,
                           !.enable_result_streaming = TRUE]

\* the value typer hands to the command for an option: the one given on
\* the command line (<<v>>), or the option's default when it is absent (<<>>)
OptionValue(given, default) ==
    IF given = <<>> THEN default ELSE given[1]

\* the configuration the mode selects in parallel_analysis_command
PresetConfig(mode, duration) ==
    CASE mode = "fast" -> create_fast_config(duration)
      [] mode = "detailed" -> create_detailed_config
      [] mode = "memory-optimized" -> create_memory_optimized_config
      [] OTHER -> ParallelConfig

\* parallel_analysis_command up to the creation of the engine: the preset,
\* the four assignments from the options, and the exit when nothing is
\* enabled
parallel_analysis_command(o) ==
    LET max_workers == OptionValue(o.max_workers, 3)
        enable_video == OptionValue(o.video, TRUE)
        enable_audio == OptionValue(o.audio, TRUE)
        enable_fps == OptionValue(o.fps, TRUE)
        cfg == [PresetConfig(o.mode, o.duration) EXCEPT
                    !.max_workers = max_workers,
                    !.enable_video = enable_video,
                    !.enable_audio = enable_audio,
                    !.enable_fps = enable_fps]
    IN [exit |-> ~(enable_video \/ enable_audio \/ enable_fps),
        config |-> cfg]

\* a quotient num/den of two numbers; den = 0 stands for ZeroDivisionError
Ratio(num, den) == <<num, den>>

\* variant: the zero total is not tested
success_rate_NoGuard(c) ==
    Ratio(c.tasks_completed, c.tasks_completed + c.tasks_failed)

success_rate(c) ==
    LET total_tasks == c.tasks_completed + c.tasks_failed
    IN IF total_tasks = 0
       THEN Ratio(0, 1)
       ELSE Ratio(c.tasks_completed, total_tasks)

base_time_per_task == 60

\* variant: the estimate is not multiplied by the number of tasks
_estimate_sequential_time_Flat(n) ==
    base_time_per_task

_estimate_sequential_time(n) ==
    n * base_time_per_task

\* min(1.0, theoretical_sequential_time / (execution_time * len(tasks)))
parallel_efficiency(n, execution_time) ==
    LET theoretical_sequential_time == _estimate_sequential_time(n)
        denominator == execution_time * n
    IN IF denominator # 0 /\ theoretical_sequential_time >= denominator
       THEN Ratio(1, 1)
       ELSE Ratio(theoretical_sequential_time, denominator)

has_video_analysis(c) == c.video_analysis # None
has_audio_analysis(c) == c.audio_analysis # None
has_fps_analysis(c) == c.fps_analysis # None

\* ------------------------------------------------------------ DownloadCache
Urls == {"u1", "u2", "u3"}
Exts == {".mp4", ".ts"}

\* sha256(url).hexdigest()[:16]; the urls of the model have distinct keys
get_cache_key(url) ==
    CASE url = "u1" -> "k1"
      [] url = "u2" -> "k2"
      [] url = "u3" -> "k3"

Keys == {get_cache_key(u) : u \in Urls}

\* cache_dir / f"{cache_key}{file_ext}"
CachedPath(key, ext) == <<key, ext>>
CachePaths == {CachedPath(k, e) : k \in Keys, e \in Exts}

NoFile == 0
NoPath == CachedPath("none", "none")
NoEntry == [url |-> "none", local_path |-> NoPath, file_size |-> 0,
            last_accessed |-> 0]

\* a file handed to add_to_cache: present or not, its extension and size
NoLocalFile == [exists |-> FALSE, ext |-> ".mp4", size |-> 1]
LocalFiles ==
    {NoLocalFile} \cup [exists : {TRUE}, ext : Exts, size : 1..MaxFileSize]

Present(es) == {k \in Keys : es[k] # NoEntry}

RECURSIVE SumSizes(_, _)
SumSizes(es, ks) ==
    IF ks = {} THEN 0
    ELSE LET k == CHOOSE x \in ks : TRUE
         IN es[k].file_size + SumSizes(es, ks \ {k})

\* sum(entry.file_size for entry in self.entries.values())
TotalSize(es) == SumSizes(es, Present(es))

\* _remove_entry: the file goes, then the entry
_remove_entry(es, fs, k) ==
    IF es[k] = NoEntry
    THEN [ok |-> FALSE, entries |-> es, files |-> fs]
    ELSE [ok |-> TRUE,
          entries |-> [es EXCEPT ![k] = NoEntry],
          files |-> [fs EXCEPT ![es[k].local_path] = NoFile]]

\* variant: the most recently used entry comes first (reverse=True)
RECURSIVE sorted_entries_NewestFirst(_, _)
sorted_entries_NewestFirst(es, ks) ==
    IF ks = {} THEN <<>>
    ELSE LET k == CHOOSE x \in ks :
                     \A y \in ks : es[x].last_accessed >= es[y].last_accessed
         IN <<k>> \o sorted_entries_NewestFirst(es, ks \ {k})

\* sorted(self.entries.items(), key=lambda x: x[1].last_accessed)
RECURSIVE sorted_entries(_, _)
sorted_entries(es, ks) ==
    IF ks = {} THEN <<>>
    ELSE LET k == CHOOSE x \in ks :
                     \A y \in ks : es[x].last_accessed <= es[y].last_accessed
         IN <<k>> \o sorted_entries(es, ks \ {k})

\* the for loop of _enforce_cache_limits from position i of the order
RECURSIVE EvictLoop(_, _, _, _, _, _, _)
EvictLoop(order, i, es, fs, total_size, freed_size, removed) ==
    IF i > Len(order) \/ total_size - freed_size <= max_size_bytes
    THEN [entries |-> es, files |-> fs, removed |-> removed]
    ELSE LET r == _remove_entry(es, fs, order[i])
         IN EvictLoop(order, i + 1, r.entries, r.files, total_size,
                      IF r.ok THEN freed_size + es[order[i]].file_size
                      ELSE freed_size,
                      IF r.ok THEN Append(removed, order[i]) ELSE removed)

_enforce_cache_limits(es, fs) ==
    LET total_size == TotalSize(es)
    IN IF total_size <= max_size_bytes
       THEN [entries |-> es, files |-> fs, removed |-> <<>>]
       ELSE EvictLoop(sorted_entries(es, Present(es)), 1, es, fs,
                      total_size, 0, <<>>)

\* if not cached_path.exists(): shutil.copy2(file_path, cached_path)
StoreFile(fs, path, size) ==
    IF fs[path] = NoFile THEN [fs EXCEPT ![path] = size] ELSE fs

\* add_to_cache at time now; copied tells whether shutil.copy2 succeeds
add_to_cache(es, fs, now, url, file, copied) ==
    LET cache_key == get_cache_key(url)
        cached_path == CachedPath(cache_key, file.ext)
        stored == StoreFile(fs, cached_path, file.size)
        entry == [url |-> url, local_path |-> cached_path,
                  file_size |-> file.size, last_accessed |-> now]
        inserted == [es EXCEPT ![cache_key] = entry]
        e == _enforce_cache_limits(inserted, stored)
    IN IF ~file.exists \/ (fs[cached_path] = NoFile /\ ~copied)
       THEN [ok |-> FALSE, entries |-> es, files |-> fs,
             inserted |-> es, removed |-> <<>>]
       ELSE [ok |-> TRUE, entries |-> e.entries, files |-> e.files,
             inserted |-> inserted, removed |-> e.removed]

\* get_cached_file at time now: <<path>>, or <<>> for None
get_cached_file(es, fs, now, url) ==
    LET cache_key == get_cache_key(url)
        entry == es[cache_key]
    IN IF entry = NoEntry
       THEN [path |-> <<>>, entries |-> es, files |-> fs]
       ELSE IF fs[entry.local_path] = NoFile \/ fs[entry.local_path] # entry.file_size
            THEN LET r == _remove_entry(es, fs, cache_key)
                 IN [path |-> <<>>, entries |-> r.entries, files |-> r.files]
            ELSE [path |-> <<entry.local_path>>,
                  entries |-> [es EXCEPT ![cache_key].last_accessed = now],
                  files |-> fs]

\* -------------------------------------------------------------------- state
VARIABLES
    config,      \* the engine's ParallelConfig
    disk,        \* what a probe of each path finds
    hmeta,       \* ProcessedFile.metadata of each handle (NoMeta: None)
    cache,       \* MetadataCache._cache (NoMeta: no entry for the path)
    pc,          \* analyze_all: idle, waiting, cancelling, returned, raised
    cur,         \* the handle of the current call (0 before the first)
    shared,      \* shared_metadata of the current call
    tasks,       \* task_names of the current call
    tstate,      \* each task coroutine: none, created, awaiting, done, cancelled
    worker,      \* each task's executor thread: none, load, extract, finished, released
    outcome,     \* each analyzer: none, ok, raised
    tresult,     \* what each finished task coroutine returned
    timedOut,    \* wait_for hit task_timeout in the current call
    combined,    \* <<CombinedAnalysis>> once returned, <<>> otherwise
    error,       \* what analyze_all raised: none, load, no_tasks
    probes,      \* _extract_metadata runs during the current call
    preloaded,   \* the handle had metadata when the current call began
    runs,        \* analyze_all calls made on the engine
    call,        \* a call of one of the pure functions: its name and argument
    ret,         \* <<value>> once that call has returned, <<>> before
    caller,      \* threads inside MetadataCache.get_or_load: position and locals
    loaded,      \* the metadata objects _extract_metadata has built
    entries,     \* DownloadCache.entries: cache key -> CacheEntry
    files,       \* size of each file of the cache directory (NoFile: absent)
    clock,       \* time.time() at the last operation on the download cache
    last,        \* the last operation on the download cache and what it returned
    hls          \* a download_hls_stream call: position, estimate, answer, result

vars == <<config, disk, hmeta, cache, pc, cur, shared, tasks, tstate, worker,
          outcome, tresult, timedOut, combined, error, probes, preloaded, runs,
          call, ret, caller, loaded, entries, files, clock, last, hls>>

\* what no step of an analyze_all call changes
downloadVars == <<entries, files, clock, last>>
engineVars == <<config, disk, call, ret, caller, loaded, downloadVars, hls>>
taskVars == <<tstate, worker, outcome, tresult>>

NoTask == [t \in AspectSet |-> "none"]

NoCall == [fn |-> "none", arg |-> <<>>]

Callers == {"A", "B"}
NoCaller == [pc |-> "idle", h |-> 0, metadata |-> NoMeta, returned |-> NoMeta]

\* DownloadResult
DownloadResult(success, path, message) ==
    [success |-> success, local_file_path |-> path, error_message |-> message]

NoResult == DownloadResult(FALSE, "None", "none")

\* no download_hls_stream call has been made
NoHls == [pc |-> "idle", estimated_size_mb |-> 0, asked |-> FALSE,
          declined |-> FALSE, ffmpeg_started |-> FALSE,
          manual_started |-> FALSE, segments |-> 0, segment_files |-> 0,
          result |-> NoResult]

NoOp == [op |-> "none", url |-> "none", ok |-> FALSE, path |-> <<>>,
         inserted |-> [k \in Keys |-> NoEntry], removed |-> <<>>]

\* DownloadCache() on an empty cache directory
NoDownloads ==
    /\ entries = [k \in Keys |-> NoEntry]
    /\ files = [p \in CachePaths |-> NoFile]
    /\ clock = 0
    /\ last = NoOp

\* an engine and handles right after construction
Fresh ==
    /\ hmeta = [h \in Handles |-> NoMeta]
    /\ cache = [p \in Paths |-> NoMeta]
    /\ pc = "idle"
    /\ cur = 0
    /\ shared = NoMeta
    /\ tasks = <<>>
    /\ tstate = NoTask
    /\ worker = NoTask
    /\ outcome = NoTask
    /\ tresult = [t \in AspectSet |-> None]
    /\ timedOut = FALSE
    /\ combined = <<>>
    /\ error = "none"
    /\ probes = 0
    /\ preloaded = FALSE
    /\ runs = 0

Init ==
    /\ config \in Configs
    /\ disk \in Disks
    /\ call = NoCall
    /\ ret = <<>>
    /\ caller = [c \in Callers |-> NoCaller]
    /\ loaded = {}
    /\ NoDownloads
    /\ hls = NoHls
    /\ Fresh

Built(t) == \E i \in 1..Len(tasks) : tasks[i] = t
Path == HandlePath[cur]
Results == [i \in 1..Len(tasks) |-> tresult[tasks[i]]]
NotRunning == pc \in {"idle", "returned", "raised"}

\* ------------------------------------------------------------------ actions
\* the caller loads the handle's metadata itself before analysing, as the
\* parallel command of the CLI does
CallerLoad(h) ==
    /\ NotRunning
    /\ runs < MaxRuns
    /\ hmeta[h] = NoMeta
    /\ LET l == load_metadata(hmeta[h], HandlePath[h], disk[HandlePath[h]])
       IN /\ l.ok
          /\ hmeta' = [hmeta EXCEPT ![h] = l.metadata]
    /\ UNCHANGED <<engineVars, cache, pc, cur, shared, tasks, taskVars,
                   timedOut, combined, error, probes, preloaded, runs>>

\* clear_cache, called between two analyze_all calls
ClearCache ==
    /\ NotRunning
    /\ cache' = clear(cache)
    /\ UNCHANGED <<engineVars, hmeta, pc, cur, shared, tasks, taskVars,
                   timedOut, combined, error, probes, preloaded, runs>>

\* variant: the task list is kept on the engine and not emptied by a call
AnalyzeAll_Accumulate(h) ==
    /\ NotRunning
    /\ runs < MaxRuns
    /\ LET p == HandlePath[h]
           g == get_or_load(cache, hmeta[h], p, disk[p])
           sharing == config.enable_metadata_sharing
           sm == IF sharing THEN g.metadata ELSE NoMeta
           ts == tasks \o BuildTasks(config, sm)
           failed == sharing /\ ~g.ok
       IN /\ cur' = h
          /\ runs' = runs + 1
          /\ preloaded' = (hmeta[h] # NoMeta)
          /\ probes' = IF sharing THEN g.probes ELSE 0
          /\ cache' = IF sharing THEN g.cache ELSE cache
          /\ hmeta' = IF sharing THEN [hmeta EXCEPT ![h] = g.handle] ELSE hmeta
          /\ shared' = sm
          /\ tasks' = IF failed THEN tasks ELSE ts
          /\ tstate' = [t \in AspectSet |->
                           IF ~failed /\ \E i \in 1..Len(ts) : ts[i] = t
                           THEN "created" ELSE "none"]
          /\ error' = IF failed THEN "load"
                      ELSE IF NoTasks(ts) THEN "no_tasks" ELSE "none"
          /\ pc' = IF failed \/ NoTasks(ts) THEN "raised" ELSE "waiting"
    /\ worker' = NoTask
    /\ outcome' = NoTask
    /\ tresult' = [t \in AspectSet |-> None]
    /\ timedOut' = FALSE
    /\ combined' = <<>>
    /\ UNCHANGED engineVars

\* analyze_all up to its await: the shared metadata, the task list, the
\* empty-list error, and the creation of the task coroutines by gather
AnalyzeAll(h) ==
    /\ NotRunning
    /\ runs < MaxRuns
    /\ LET p == HandlePath[h]
           g == get_or_load(cache, hmeta[h], p, disk[p])
           sharing == config.enable_metadata_sharing
           sm == IF sharing THEN g.metadata ELSE NoMeta
           ts == BuildTasks(config, sm)
           failed == sharing /\ ~g.ok
       IN /\ cur' = h
          /\ runs' = runs + 1
          /\ preloaded' = (hmeta[h] # NoMeta)
          /\ probes' = IF sharing THEN g.probes ELSE 0
          /\ cache' = IF sharing THEN g.cache ELSE cache
          /\ hmeta' = IF sharing THEN [hmeta EXCEPT ![h] = g.handle] ELSE hmeta
          /\ shared' = sm
          /\ tasks' = IF failed THEN <<>> ELSE ts
          /\ tstate' = [t \in AspectSet |->
                           IF ~failed /\ \E i \in 1..Len(ts) : ts[i] = t
                           THEN "created" ELSE "none"]
          /\ error' = IF failed THEN "load"
                      ELSE IF NoTasks(ts) THEN "no_tasks" ELSE "none"
          /\ pc' = IF failed \/ NoTasks(ts) THEN "raised" ELSE "waiting"
    /\ worker' = NoTask
    /\ outcome' = NoTask
    /\ tresult' = [t \in AspectSet |-> None]
    /\ timedOut' = FALSE
    /\ combined' = <<>>
    /\ UNCHANGED engineVars

\* variant: a task is started only when the one before it has returned
StartTask_Sequential(i) ==
    /\ pc = "waiting"
    /\ i \in 1..Len(tasks)
    /\ tstate[tasks[i]] = "created"
    /\ \A j \in 1..(i - 1) : tstate[tasks[j]] = "done"
    /\ tstate' = [tstate EXCEPT ![tasks[i]] = "awaiting"]
    /\ worker' = [worker EXCEPT ![tasks[i]] = "load"]
    /\ UNCHANGED <<engineVars, hmeta, cache, pc, cur, shared, tasks, outcome,
                   tresult, timedOut, combined, error, probes, preloaded, runs>>

\* first step of task i: it makes its executor and submits _analyze to it.
\* The loop runs the first steps in the order gather created the tasks.
StartTask(i) ==
    /\ pc = "waiting"
    /\ i \in 1..Len(tasks)
    /\ tstate[tasks[i]] = "created"
    /\ \A j \in 1..(i - 1) : tstate[tasks[j]] # "created"
    /\ tstate' = [tstate EXCEPT ![tasks[i]] = "awaiting"]
    /\ worker' = [worker EXCEPT ![tasks[i]] = "load"]
    /\ UNCHANGED <<engineVars, hmeta, cache, pc, cur, shared, tasks, outcome,
                   tresult, timedOut, combined, error, probes, preloaded, runs>>

\* what analyze() yields on metadata m: its checks decide, and past them
\* the analysis itself may still fail
Outcomes(t, m) ==
    IF AnalyzerRaises(t, m) THEN {"raised"} ELSE {"ok", "raised"}

\* variant: a worker whose analyzer raises drops the path's cache entry
WorkerAnalyze_Invalidate(t) ==
    /\ worker[t] = "load"
    /\ hmeta[cur] # NoMeta
    /\ \E oc \in Outcomes(t, hmeta[cur]) :
          /\ outcome' = [outcome EXCEPT ![t] = oc]
          /\ cache' = IF oc = "raised"
                      THEN [cache EXCEPT ![HandlePath[cur]] = NoMeta]
                      ELSE cache
    /\ worker' = [worker EXCEPT ![t] = "finished"]
    /\ UNCHANGED <<engineVars, hmeta, pc, cur, shared, tasks, tstate,
                   tresult, timedOut, combined, error, probes, preloaded, runs>>

\* worker thread of t: analyze() calls load_metadata and finds the handle's
\* metadata present, then analyses
WorkerAnalyze(t) ==
    /\ worker[t] = "load"
    /\ hmeta[cur] # NoMeta
    /\ \E oc \in Outcomes(t, hmeta[cur]) :
          outcome' = [outcome EXCEPT ![t] = oc]
    /\ worker' = [worker EXCEPT ![t] = "finished"]
    /\ UNCHANGED <<engineVars, hmeta, cache, pc, cur, shared, tasks, tstate,
                   tresult, timedOut, combined, error, probes, preloaded, runs>>

\* worker thread of t: load_metadata finds self.metadata is None
WorkerSeesNone(t) ==
    /\ worker[t] = "load"
    /\ hmeta[cur] = NoMeta
    /\ worker' = [worker EXCEPT ![t] = "extract"]
    /\ UNCHANGED <<engineVars, hmeta, cache, pc, cur, shared, tasks, tstate,
                   outcome, tresult, timedOut, combined, error, probes,
                   preloaded, runs>>

\* worker thread of t: it probes the file, stores the metadata in the handle
\* and analyses
WorkerExtract(t) ==
    /\ worker[t] = "extract"
    /\ LET l == load_metadata(NoMeta, Path, disk[Path])
       IN /\ probes' = probes + l.probes
          /\ hmeta' = IF l.ok THEN [hmeta EXCEPT ![cur] = l.metadata] ELSE hmeta
          /\ \E oc \in (IF l.ok THEN Outcomes(t, l.metadata) ELSE {"raised"}) :
                outcome' = [outcome EXCEPT ![t] = oc]
    /\ worker' = [worker EXCEPT ![t] = "finished"]
    /\ UNCHANGED <<engineVars, cache, pc, cur, shared, tasks, tstate, tresult,
                   timedOut, combined, error, preloaded, runs>>

AllStarted == \A i \in 1..Len(tasks) : tstate[tasks[i]] # "created"
AllDone == \A i \in 1..Len(tasks) : tstate[tasks[i]] = "done"

\* the coroutine of t resumes from run_in_executor: it leaves the with block
\* (the idle executor shuts down) and returns
TaskComplete(t) ==
    /\ pc = "waiting"
    /\ AllStarted
    /\ tstate[t] = "awaiting"
    /\ worker[t] = "finished"
    /\ tstate' = [tstate EXCEPT ![t] = "done"]
    /\ worker' = [worker EXCEPT ![t] = "released"]
    /\ tresult' = [tresult EXCEPT ![t] = RunAnalysis(t, Path, outcome[t])]
    /\ UNCHANGED <<engineVars, hmeta, cache, pc, cur, shared, tasks, outcome,
                   timedOut, combined, error, probes, preloaded, runs>>

\* variant: the exception of a failed analyzer is raised to the caller
GatherReturn_Reraise ==
    /\ pc = "waiting"
    /\ AllDone
    /\ IF \E t \in AspectSet : outcome[t] = "raised"
       THEN /\ pc' = "raised"
            /\ error' = "analyzer"
            /\ combined' = <<>>
       ELSE /\ pc' = "returned"
            /\ error' = error
            /\ combined' = <<CombinedAnalysis(config, Path, shared, ProcessedResults(Results))>>
    /\ UNCHANGED <<engineVars, hmeta, cache, cur, shared, tasks, taskVars,
                   timedOut, probes, preloaded, runs>>

\* gather has every result: _execute_parallel_tasks returns and analyze_all
\* assembles the CombinedAnalysis
GatherReturn ==
    /\ pc = "waiting"
    /\ AllDone
    /\ combined' = <<CombinedAnalysis(config, Path, shared, ProcessedResults(Results))>>
    /\ pc' = "returned"
    /\ UNCHANGED <<engineVars, hmeta, cache, cur, shared, tasks, taskVars,
                   timedOut, error, probes, preloaded, runs>>

\* task_timeout elapses first: wait_for cancels gather, gather its tasks
Timeout ==
    /\ pc = "waiting"
    /\ AllStarted
    /\ ~AllDone
    /\ timedOut' = TRUE
    /\ pc' = "cancelling"
    /\ UNCHANGED <<engineVars, hmeta, cache, cur, shared, tasks, taskVars,
                   combined, error, probes, preloaded, runs>>

\* variant: the executor is shut down without waiting for its thread
CancelTask_Abandon(i) ==
    /\ pc = "cancelling"
    /\ i \in 1..Len(tasks)
    /\ tstate[tasks[i]] = "awaiting"
    /\ \A j \in 1..(i - 1) : tstate[tasks[j]] # "awaiting"
    /\ tstate' = [tstate EXCEPT ![tasks[i]] = "cancelled"]
    /\ worker' = [worker EXCEPT ![tasks[i]] =
                      IF worker[tasks[i]] = "finished" THEN "released"
                      ELSE worker[tasks[i]]]
    /\ UNCHANGED <<engineVars, hmeta, cache, pc, cur, shared, tasks, outcome,
                   tresult, timedOut, combined, error, probes, preloaded, runs>>

\* CancelledError reaches the coroutine of task i at its await; leaving the
\* with block calls executor.shutdown(wait=True), which joins the worker
\* thread, so the loop stands still until the analyzer has finished
CancelTask(i) ==
    /\ pc = "cancelling"
    /\ i \in 1..Len(tasks)
    /\ tstate[tasks[i]] = "awaiting"
    /\ \A j \in 1..(i - 1) : tstate[tasks[j]] # "awaiting"
    /\ worker[tasks[i]] = "finished"
    /\ tstate' = [tstate EXCEPT ![tasks[i]] = "cancelled"]
    /\ worker' = [worker EXCEPT ![tasks[i]] = "released"]
    /\ UNCHANGED <<engineVars, hmeta, cache, pc, cur, shared, tasks, outcome,
                   tresult, timedOut, combined, error, probes, preloaded, runs>>

\* every task is cancelled or done: wait_for raises TimeoutError, which
\* _execute_parallel_tasks turns into a list of None
TimeoutReturn ==
    /\ pc = "cancelling"
    /\ \A i \in 1..Len(tasks) : tstate[tasks[i]] \in {"done", "cancelled"}
    /\ combined' = <<CombinedAnalysis(config, Path, shared, TimeoutResults(Results))>>
    /\ pc' = "returned"
    /\ UNCHANGED <<engineVars, hmeta, cache, cur, shared, tasks, taskVars,
                   timedOut, error, probes, preloaded, runs>>

Next ==
    \/ \E h \in Handles : CallerLoad(h)
    \/ ClearCache
    \/ \E h \in Handles : AnalyzeAll(h)
    \/ \E i \in 1..3 : StartTask(i)
    \/ \E t \in AspectSet : WorkerAnalyze(t)
    \/ \E t \in AspectSet : WorkerSeesNone(t)
    \/ \E t \in AspectSet : WorkerExtract(t)
    \/ \E t \in AspectSet : TaskComplete(t)
    \/ GatherReturn
    \/ Timeout
    \/ \E i \in 1..3 : CancelTask(i)
    \/ TimeoutReturn

Spec == Init /\ [][Next]_vars

TypeOK ==
    /\ pc \in {"idle", "waiting", "cancelling", "returned", "raised"}
    /\ runs \in 0..MaxRuns
    /\ probes \in 0..4
    /\ Len(combined) \in {0, 1}

\* ------------------------------------------------------- claim vocabulary
Sharing == config.enable_metadata_sharing
Returned == pc = "returned" /\ Len(combined) = 1
Failed == {t \in AspectSet : Built(t) /\ outcome[t] = "raised"}
Field(c, t) ==
    CASE t = "video" -> c.video_analysis
      [] t = "audio" -> c.audio_analysis
      [] t = "fps" -> c.fps_analysis

\* the stream an aspect needs is in the file, by the probe of the disk
StreamOnDisk(t, probe) ==
    /\ probe.readable
    /\ IF t = "audio" THEN probe.audio ELSE probe.video

\* the call got past the metadata step and decided its task list
TasksDecided == cur # 0 /\ error # "load"

\* ------------------------------------------------------------------- claims
\* C1: an analyzer that raises never makes analyze_all raise: whatever set
\* of analyzers has raised, the call is still running or has returned a
\* CombinedAnalysis.
C1_AnalyzerFailureNotRaised ==
    (\E t \in AspectSet : outcome[t] = "raised") =>
        /\ pc \in {"waiting", "cancelling", "returned"}
        /\ error = "none"
        /\ (pc = "returned" => Len(combined) = 1)

C1_Witness ==
    /\ Returned
    /\ ~timedOut
    /\ Len(tasks) = 3
    /\ \A t \in AspectSet : outcome[t] = "raised"

\* C2: after a run without timeout, the fields of the aspects whose
\* analyzers raised are None, every other built aspect holds its analyzer's
\* result, tasks_failed is the number that raised and tasks_completed the
\* rest; with only audio failing, has_audio_analysis is False, the other two
\* stay True and tasks_failed is 1.
C2_FailureIsolation ==
    (Returned /\ ~timedOut) =>
        LET c == combined[1]
        IN /\ \A t \in AspectSet : Built(t) =>
                 Field(c, t) = IF t \in Failed THEN None
                               ELSE AspectResult(t, Path)
           /\ c.tasks_failed = Cardinality(Failed)
           /\ c.tasks_completed = Len(tasks) - Cardinality(Failed)
           /\ (Failed = {"audio"} =>
                 /\ ~has_audio_analysis(c)
                 /\ (Built("video") => has_video_analysis(c))
                 /\ (Built("fps") => has_fps_analysis(c))
                 /\ c.tasks_failed = 1)

C2_Witness ==
    /\ Returned
    /\ ~timedOut
    /\ Len(tasks) = 3
    /\ Failed = {"audio"}
    /\ combined[1].tasks_failed = 1
    /\ combined[1].tasks_completed = 2

\* C3: when the timeout fires, analyze_all raises nothing and returns a
\* result with every field None, tasks_completed 0 and tasks_failed the
\* number of built tasks, also when some task had already finished well.
C3_TimeoutBlanketsAll ==
    timedOut =>
        /\ pc \in {"cancelling", "returned"}
        /\ error = "none"
        /\ (pc = "returned" =>
              /\ Len(combined) = 1
              /\ \A t \in AspectSet : Field(combined[1], t) = None
              /\ combined[1].tasks_completed = 0
              /\ combined[1].tasks_failed = Len(tasks))

C3_Witness ==
    /\ Returned
    /\ timedOut
    /\ \E t \in AspectSet : tstate[t] = "done" /\ outcome[t] = "ok"
    /\ \E t \in AspectSet : tstate[t] = "cancelled"

\* C4: once the timeout has fired the coordinator does not wait for a
\* running analyzer: it always has a step of its own to take (cancel the
\* next task or return).
C4_StopsWaitingAtTimeout ==
    (pc = "cancelling") =>
        ENABLED (TimeoutReturn \/ \E i \in 1..3 : CancelTask(i))

\* C5: with metadata sharing, the video task is built iff video is enabled
\* and the file has a video stream, the audio task iff audio is enabled and
\* the file has an audio stream.
C5_VideoAudioTaskSet ==
    (Sharing /\ TasksDecided) =>
        /\ Built("video") <=>
              (config.enable_video /\ StreamOnDisk("video", disk[Path]))
        /\ Built("audio") <=>
              (config.enable_audio /\ StreamOnDisk("audio", disk[Path]))

C5_Witness ==
    /\ Sharing
    /\ pc = "waiting"
    /\ config.enable_video /\ config.enable_audio
    /\ ~disk[Path].video
    /\ Built("audio") /\ ~Built("video")

\* C6: the FPS task is built iff fps is enabled and the file has a video
\* stream with a positive declared frame rate; with rate 0 no FPS task is
\* built, so none fails.
C6_FpsTaskNeedsRate ==
    (Sharing /\ TasksDecided) =>
        /\ Built("fps") <=>
              /\ config.enable_fps
              /\ StreamOnDisk("video", disk[Path])
              /\ _parse_fps(disk[Path])[1] > 0
        /\ (_parse_fps(disk[Path])[1] <= 0 => outcome["fps"] = "none")

C8_FixedFieldMapping ==
    Returned =>
        \A t \in AspectSet :
            Field(combined[1], t) \in {None, AspectResult(t, Path)}

C8_Witness ==
    /\ Returned
    /\ ~Built("video")
    /\ tasks = <<"audio", "fps">>
    /\ combined[1].audio_analysis = AspectResult("audio", Path)
    /\ combined[1].fps_analysis = AspectResult("fps", Path)
    /\ combined[1].video_analysis = None

\* C9: with metadata sharing disabled the tasks of the enabled aspects whose
\* stream the file has are still built and run, so the call does not raise.
C9_SharingOffStillRuns ==
    (cur # 0 /\ ~Sharing
       /\ \E t \in AspectSet : Enabled(config, t) /\ StreamOnDisk(t, disk[Path])) =>
        /\ pc # "raised"
        /\ \A t \in AspectSet :
              Built(t) <=> (Enabled(config, t) /\ StreamOnDisk(t, disk[Path]))

\* C10: with metadata sharing, a run with all three aspects on a file with
\* both streams extracts the metadata exactly once when the handle had none
\* loaded before, and not at all when it had.
C10_ProbedOnce ==
    (Returned /\ Sharing
       /\ config.enable_video /\ config.enable_audio /\ config.enable_fps
       /\ disk[Path].video /\ disk[Path].audio) =>
        probes = IF preloaded THEN 0 ELSE 1

DefaultFlags ==
    [enable_video |-> TRUE, enable_audio |-> TRUE, enable_fps |-> TRUE,
     enable_metadata_sharing |-> TRUE]

BothStreams == Probe(TRUE, 20, TRUE, TRUE, Rate(30, 1), Rate(30, 1))

Call(f, a) == [fn |-> f, arg |-> a]

SuccessRateCalls ==
    {Call("success_rate", c) :
        c \in [tasks_completed : 0..MaxCount, tasks_failed : 0..MaxCount]}

EfficiencyCalls ==
    {Call("parallel_efficiency", a) :
        a \in [n : 1..3, execution_time : 1..MaxExecTime]}

\* analyze() of one analyzer on a fresh handle of a file
AnalyzeCalls ==
    {Call("analyze", a) : a \in [aspect : AspectSet, probe : FileKinds]}

Breakpoints == {3600, 7200, 14400}

Durations ==
    {0} \cup {b + e : b \in Breakpoints, e \in (0 - MaxDelta)..MaxDelta}

\* create_fast_config for two durations
FastConfigCalls ==
    {Call("create_fast_config", a) : a \in [d1 : Durations, d2 : Durations]}

DetailedConfigCalls == {Call("create_detailed_config", <<>>)}

Modes == {"default", "fast", "detailed", "memory-optimized"}
Flag(values) == {<<>>} \cup {<<v>> : v \in values}

\* command lines of the parallel command: each option given or absent
CommandCalls ==
    {Call("parallel_analysis_command", o) :
        o \in [mode : Modes, duration : {20, 3601},
               max_workers : Flag(1..MaxWorkersFlag),
               video : Flag(BOOLEAN), audio : Flag(BOOLEAN), fps : Flag(BOOLEAN)]}

\* analyze() on a file with both streams, for every set of failing samples
\* among the first ones
SamplingDurations == (0..MaxDuration) \cup {3601}
FailSets == SUBSET (0..(SampleCount(MaxDuration, video_interval) - 1))

SamplingCalls ==
    {Call("sampling", a) :
        a \in [aspect : AspectSet, duration : SamplingDurations, fails : FailSets]}

PureCalls ==
    SamplingCalls \cup SuccessRateCalls \cup EfficiencyCalls \cup AnalyzeCalls
        \cup FastConfigCalls \cup DetailedConfigCalls \cup CommandCalls

InitPure ==
    /\ config = DefaultFlags
    /\ disk = [p \in Paths |-> BothStreams]
    /\ call \in PureCalls
    /\ ret = <<>>
    /\ caller = [c \in Callers |-> NoCaller]
    /\ loaded = {}
    /\ NoDownloads
    /\ hls = NoHls
    /\ Fresh

pureFrame == <<config, disk, hmeta, cache, pc, cur, shared, tasks, tstate,
               worker, outcome, tresult, timedOut, combined, error, probes,
               preloaded, runs, call, caller, loaded, downloadVars, hls>>

ApplySuccessRate ==
    /\ call.fn = "success_rate"
    /\ ret = <<>>
    /\ ret' = <<success_rate(call.arg)>>
    /\ UNCHANGED pureFrame

ApplyEfficiency ==
    /\ call.fn = "parallel_efficiency"
    /\ ret = <<>>
    /\ ret' = <<parallel_efficiency(call.arg.n, call.arg.execution_time)>>
    /\ UNCHANGED pureFrame

\* analyze_single_type: the analyzer of the aspect runs on a handle that
\* has no metadata yet
ApplyAnalyze ==
    /\ call.fn = "analyze"
    /\ ret = <<>>
    /\ LET t == call.arg.aspect
           l == load_metadata(NoMeta, "a.mp4", call.arg.probe)
       IN \E oc \in (IF l.ok THEN Outcomes(t, l.metadata) ELSE {"raised"}) :
             ret' = <<[outcome |-> oc,
                       result |-> RunAnalysis(t, "a.mp4", oc),
                       data_points |->
                           IF oc = "ok"
                           THEN SampleCount(l.metadata.duration,
                                            IntervalOf(t, l.metadata))
                           ELSE 0]>>
    /\ UNCHANGED pureFrame

ApplyFastConfig ==
    /\ call.fn = "create_fast_config"
    /\ ret = <<>>
    /\ ret' = <<[c1 |-> create_fast_config(call.arg.d1),
                 c2 |-> create_fast_config(call.arg.d2)]>>
    /\ UNCHANGED pureFrame

ApplyDetailedConfig ==
    /\ call.fn = "create_detailed_config"
    /\ ret = <<>>
    /\ ret' = <<create_detailed_config>>
    /\ UNCHANGED pureFrame

ApplyCommand ==
    /\ call.fn = "parallel_analysis_command"
    /\ ret = <<>>
    /\ ret' = <<parallel_analysis_command(call.arg)>>
    /\ UNCHANGED pureFrame

ApplySampling ==
    /\ call.fn = "sampling"
    /\ ret = <<>>
    /\ LET probe == [BothStreams EXCEPT !.duration = call.arg.duration]
           m == _extract_metadata("a.mp4", probe)
       IN ret' = <<analyze(call.arg.aspect, m, call.arg.fails)>>
    /\ UNCHANGED pureFrame

NextPure ==
    \/ ApplyCommand
    \/ ApplySampling
    \/ ApplySuccessRate
    \/ ApplyEfficiency
    \/ ApplyAnalyze
    \/ ApplyFastConfig
    \/ ApplyDetailedConfig

SpecPure == InitPure /\ [][NextPure]_vars

Returns(f) == call.fn = f /\ Len(ret) = 1

\* C12: success_rate is tasks_completed / (tasks_completed + tasks_failed)
\* when that sum is not zero and 0.0 when both counters are zero; it never
\* divides by zero.
C12_SuccessRate ==
    Returns("success_rate") =>
        LET c == call.arg
            total == c.tasks_completed + c.tasks_failed
            r == ret[1]
        IN /\ r[2] # 0
           /\ (total # 0 => r[1] * total = c.tasks_completed * r[2])
           /\ (total = 0 => r[1] = 0)

C12_Witness ==
    /\ Returns("success_rate")
    /\ call.arg.tasks_completed = 0 /\ call.arg.tasks_failed = 0
    /\ ret[1] = Ratio(0, 1)

\* C13: for n >= 1 built tasks and execution_time > 0, parallel_efficiency
\* is min(1.0, (60 * n) / (execution_time * n)), so it is 1 up to 60
\* seconds and 60 / execution_time beyond, and always within [0, 1].
C13_ParallelEfficiency ==
    Returns("parallel_efficiency") =>
        LET n == call.arg.n
            et == call.arg.execution_time
            r == ret[1]
        IN /\ r[2] > 0
           /\ 0 <= r[1] /\ r[1] <= r[2]
           /\ IF 60 * n >= et * n
              THEN r[1] = r[2]
              ELSE r[1] * (et * n) = (60 * n) * r[2]
           /\ (et > 60 => r[1] * et = 60 * r[2])

C13_Witness ==
    /\ Returns("parallel_efficiency")
    /\ call.arg.n = 3
    /\ call.arg.execution_time = 90
    /\ ret[1] = Ratio(180, 270)

\* ------------------------------------------------------ the metadata cache
EmptyCache == [p \in Paths |-> NoMeta]

\* a step that begins an analyze_all call with metadata sharing, and so
\* calls get_or_load for the handle cur'
GetOrLoadStep == runs' = runs + 1 /\ Sharing

\* C14: get_or_load is keyed by the handle's file path: a miss calls the
\* handle's load_metadata once and stores what it returned under the path;
\* a hit returns the stored metadata and leaves the handle alone, also
\* when the handle is another object with the same path.
C14_KeyedByPath ==
    [][GetOrLoadStep =>
         LET h == cur'
             p == HandlePath[h]
         IN /\ \A q \in Paths \ {p} : cache'[q] = cache[q]
            /\ \A k \in Handles \ {h} : hmeta'[k] = hmeta[k]
            /\ IF cache[p] # NoMeta
               THEN /\ shared' = cache[p]
                    /\ cache' = cache
                    /\ hmeta' = hmeta
                    /\ probes' = 0
               ELSE /\ probes' = IF hmeta[h] = NoMeta THEN 1 ELSE 0
                    /\ (error' # "load" =>
                          /\ shared' = _extract_metadata(p, disk[p])
                          /\ hmeta'[h] = shared'
                          /\ cache'[p] = shared')
                    /\ (error' = "load" => cache' = cache /\ hmeta' = hmeta)]_vars

C14_Witness ==
    /\ Sharing
    /\ pc = "waiting"
    /\ cur = 2
    /\ probes = 0
    /\ hmeta[1] # NoMeta
    /\ hmeta[2] = NoMeta
    /\ shared = cache["a.mp4"]
    /\ shared = hmeta[1]
    /\ \A t \in AspectSet : worker[t] = "none"

\* C15: an entry once stored is never removed or replaced by get_or_load;
\* only clear removes entries, clear can always be called and leaves the
\* cache empty, and the first get_or_load for a path after it is a miss
\* that loads from the handle and stores again.
C15_EntriesLiveUntilClear ==
    /\ [][/\ \A p \in Paths :
                (cache[p] # NoMeta /\ cache'[p] # cache[p]) => ClearCache
          /\ (ClearCache => cache' = EmptyCache)
          /\ (GetOrLoadStep /\ cache = EmptyCache /\ error' # "load") =>
                /\ cache'[HandlePath[cur']] = hmeta'[cur']
                /\ cache'[HandlePath[cur']] # NoMeta
                /\ probes' = IF hmeta[cur'] = NoMeta THEN 1 ELSE 0]_vars
    /\ [](NotRunning => ENABLED ClearCache)

C15_Witness ==
    /\ Sharing
    /\ pc = "returned"
    /\ cur = 1
    /\ hmeta[1] # NoMeta
    /\ cache = EmptyCache

\* ------------------------------------------------ analyzers and presets
\* C16: analyze fails, and returns no result, when the stream it needs is
\* absent or the metadata is unusable (duration 0, for FPS a declared rate
\* <= 0); a result that is returned never has an empty time series.
C16_AnalyzerRejectsUnusable ==
    Returns("analyze") =>
        LET t == call.arg.aspect
            probe == call.arg.probe
            r == ret[1]
            unusable == \/ ~StreamOnDisk(t, probe)
                        \/ probe.duration = 0
                        \/ t = "fps" /\ _parse_fps(probe)[1] <= 0
        IN /\ (unusable => r.outcome = "raised")
           /\ (r.outcome = "raised" => r.result = None)
           /\ (r.outcome = "ok" => r.result # None /\ r.data_points > 0)

C16_Witness ==
    /\ Returns("analyze")
    /\ call.arg.aspect = "video"
    /\ call.arg.probe.video
    /\ call.arg.probe.duration = 0
    /\ ret[1].outcome = "raised"

Intervals(cfg) == <<cfg.video_interval, cfg.audio_interval, cfg.fps_interval>>

ExpectedFast(d) ==
    IF d <= 3600 THEN <<10, 15, 20>>
    ELSE IF d <= 7200 THEN <<30, 45, 60>>
    ELSE IF d <= 14400 THEN <<45, 60, 75>>
    ELSE <<60, 90, 120>>

\* C17: create_fast_config widens the intervals only past the breakpoints:
\* up to 3600 the defaults (10, 15, 20), above 3600 (30, 45, 60), above
\* 7200 (45, 60, 75), above 14400 (60, 90, 120); the intervals never
\* shrink as the duration grows, and all other fields keep their defaults.
C17_FastConfigBreakpoints ==
    Returns("create_fast_config") =>
        LET d1 == call.arg.d1
            d2 == call.arg.d2
            c1 == ret[1].c1
            c2 == ret[1].c2
        IN /\ Intervals(c1) = ExpectedFast(d1)
           /\ Intervals(c2) = ExpectedFast(d2)
           /\ (d1 <= d2 =>
                 \A i \in 1..3 : Intervals(c1)[i] <= Intervals(c2)[i])
           /\ WithIntervals(c1, 10, 15, 20) = ParallelConfig
           /\ WithIntervals(c2, 10, 15, 20) = ParallelConfig

C17_Witness ==
    /\ Returns("create_fast_config")
    /\ call.arg.d1 = 3600
    /\ call.arg.d2 = 3601
    /\ Intervals(ret[1].c1) = <<10, 15, 20>>
    /\ Intervals(ret[1].c2) = <<30, 45, 60>>

\* C18: create_detailed_config returns intervals strictly smaller than the
\* defaults and a task_timeout strictly greater than the default.
C18_DetailedConfig ==
    Returns("create_detailed_config") =>
        /\ \A i \in 1..3 : Intervals(ret[1])[i] < Intervals(ParallelConfig)[i]
        /\ ret[1].task_timeout > ParallelConfig.task_timeout

\* ------------------------------------------------------ dispatch and workers
Running(t) == worker[t] \in {"load", "extract"}

\* C19: all built tasks are dispatched before the coordinator waits: the
\* start of a task never waits for another analyzer, no task has returned
\* or been cancelled (and no timeout has fired) before every task has
\* started, and every running analyzer and every finished task can take
\* its next step whatever the others do, so they complete in any order.
C19_DispatchBeforeWait ==
    /\ (pc = "waiting" /\ ~AllStarted) => ENABLED (\E i \in 1..3 : StartTask(i))
    /\ (\E t \in AspectSet : tstate[t] \in {"done", "cancelled"}) => AllStarted
    /\ (pc = "cancelling" => AllStarted)
    /\ \A t \in AspectSet :
          /\ worker[t] = "load" => ENABLED (WorkerAnalyze(t) \/ WorkerSeesNone(t))
          /\ worker[t] = "extract" => ENABLED WorkerExtract(t)
          /\ (pc = "waiting" /\ AllStarted /\ tstate[t] = "awaiting"
                /\ worker[t] = "finished") => ENABLED TaskComplete(t)

C19_Witness ==
    /\ pc = "waiting"
    /\ Len(tasks) = 3
    /\ \A t \in AspectSet : Running(t) /\ tstate[t] = "awaiting"

\* C20: each task has its own worker, which runs only that task's analyzer
\* and is released when the task ends, on return, on an exception and on
\* timeout: once analyze_all has returned or raised, no worker it made is
\* alive or running an analyzer.
C20_WorkersReleased ==
    /\ NotRunning => \A t \in AspectSet : worker[t] \in {"none", "released"}
    /\ \A t \in AspectSet :
          /\ worker[t] # "none" => Built(t) /\ tstate[t] # "created"
          /\ tstate[t] \in {"done", "cancelled"} => worker[t] = "released"
          /\ worker[t] = "released" => tstate[t] \in {"done", "cancelled"}

C20_Witness ==
    /\ Returned
    /\ timedOut
    /\ Len(tasks) = 3
    /\ \A t \in AspectSet : worker[t] = "released"
    /\ \E t \in AspectSet : tstate[t] = "cancelled" /\ outcome[t] = "raised"
    /\ \E t \in AspectSet : tstate[t] = "cancelled" /\ outcome[t] = "ok"

\* ------------------------------------------------- the cache during fan-out
\* C21: with metadata sharing the cache is written only by the get_or_load
\* that opens a call, before any task is dispatched, and at most once per
\* path (an entry is stored only where none was); from dispatch until the
\* tasks have settled or the timeout has been handled the cache does not
\* change, whatever the workers do.
C21_WriteBeforeFanOut ==
    [][/\ (pc \in {"waiting", "cancelling"} => cache' = cache)
       /\ \A p \in Paths :
             (cache'[p] # cache[p] /\ cache'[p] # NoMeta) =>
                 /\ GetOrLoadStep
                 /\ p = HandlePath[cur']
                 /\ cache[p] = NoMeta
                 /\ \A t \in AspectSet :
                       tstate'[t] \in {"none", "created"} /\ worker'[t] = "none"]_vars

C21_Witness ==
    /\ Sharing
    /\ pc = "waiting"
    /\ cur = 2
    /\ probes >= 1
    /\ hmeta[2] # NoMeta
    /\ cache["a.mp4"] = hmeta[1]
    /\ \E t \in AspectSet : worker[t] = "finished" /\ outcome[t] = "raised"

\* ------------------------------------------------- counters and load errors
HasAnalysis(c) ==
    {t \in AspectSet :
        CASE t = "video" -> has_video_analysis(c)
          [] t = "audio" -> has_audio_analysis(c)
          [] t = "fps" -> has_fps_analysis(c)}

\* C25: in every returned CombinedAnalysis tasks_completed is the number of
\* has_video_analysis, has_audio_analysis, has_fps_analysis that are True,
\* after a normal return and after a timeout.
C25_CompletedCountsFields ==
    Returned => combined[1].tasks_completed = Cardinality(HasAnalysis(combined[1]))

C25_Witness ==
    /\ Returned
    /\ ~timedOut
    /\ tasks = <<"video", "audio">>
    /\ outcome["video"] = "ok"
    /\ outcome["audio"] = "raised"
    /\ combined[1].tasks_completed = 1
    /\ HasAnalysis(combined[1]) = {"video"}

\* C26: when load_metadata raises inside get_or_load, analyze_all raises
\* before any task exists, the cache and the handle stay as they were, and
\* the next get_or_load for the path is a miss that probes again.
C26_LoadErrorPropagates ==
    /\ [](error = "load" =>
            /\ pc = "raised"
            /\ combined = <<>>
            /\ tasks = <<>>
            /\ \A t \in AspectSet :
                  tstate[t] = "none" /\ worker[t] = "none" /\ outcome[t] = "none")
    /\ [][GetOrLoadStep =>
            LET h == cur'
                p == HandlePath[h]
                miss == cache[p] = NoMeta /\ hmeta[h] = NoMeta
            IN /\ error' = "load" <=> (miss /\ ~disk[p].readable)
               /\ error' = "load" => cache' = cache /\ hmeta' = hmeta
               /\ (error = "load" /\ p = Path) => (cache[p] = NoMeta /\ probes' = 1)]_vars

\* a second call for the unreadable file, after a first one for it
C26_Witness ==
    /\ Sharing
    /\ runs = 2
    /\ error = "load"
    /\ pc = "raised"
    /\ probes = 1
    /\ cur = 2
    /\ cache = EmptyCache
    /\ hmeta[3] = NoMeta

\* ------------------------------------------- get_or_load from two threads
\* Two threads call MetadataCache.get_or_load on one cache, each with a
\* handle of its own choice.  The statements of get_or_load and of
\* load_metadata are the steps; a dictionary read or write and an attribute
\* read or write are atomic.  The file may be rewritten meanwhile.
ReadableKinds == {k \in FileKinds : k.readable}

raceFrame == <<config, pc, cur, shared, tasks, tstate, worker, outcome,
               tresult, timedOut, combined, error, preloaded, runs, call, ret,
               downloadVars, hls>>

InitRace ==
    /\ config = DefaultFlags
    /\ disk \in Disks
    /\ call = NoCall
    /\ ret = <<>>
    /\ caller \in [Callers -> {[NoCaller EXCEPT !.pc = "start", !.h = h] :
                                  h \in Handles}]
    /\ loaded = {}
    /\ NoDownloads
    /\ hls = NoHls
    /\ Fresh

RaceNotBegun == \A c \in Callers : caller[c].pc = "start"

\* a handle's metadata was loaded before the two threads begin
RacePreload(h) ==
    /\ RaceNotBegun
    /\ hmeta[h] = NoMeta
    /\ LET l == load_metadata(hmeta[h], HandlePath[h], disk[HandlePath[h]])
       IN /\ l.ok
          /\ hmeta' = [hmeta EXCEPT ![h] = l.metadata]
          /\ loaded' = loaded \cup {l.metadata}
    /\ UNCHANGED <<raceFrame, disk, cache, caller, probes>>

\* another program replaces the file by a different readable one
FileRewritten(p) ==
    /\ disk[p].readable
    /\ \E k \in ReadableKinds \ {disk[p]} :
          /\ p = "b.mp4" => k \in OtherKinds
          /\ disk' = [disk EXCEPT ![p] = k]
    /\ UNCHANGED <<raceFrame, hmeta, cache, caller, loaded, probes>>

\* if cache_key in self._cache: return self._cache[cache_key]
GetCheck(c) ==
    /\ caller[c].pc = "start"
    /\ LET p == HandlePath[caller[c].h]
       IN caller' = [caller EXCEPT ![c] =
                        IF cache[p] # NoMeta
                        THEN [@ EXCEPT !.pc = "done", !.returned = cache[p]]
                        ELSE [@ EXCEPT !.pc = "load"]]
    /\ UNCHANGED <<raceFrame, disk, hmeta, cache, loaded, probes>>

\* variant: a placeholder is published in the handle before the probe runs
LoadCheck_Placeholder(c) ==
    /\ caller[c].pc = "load"
    /\ LET h == caller[c].h
       IN IF hmeta[h] = NoMeta
          THEN /\ hmeta' = [hmeta EXCEPT ![h] =
                               [NoMeta EXCEPT !.file_path = HandlePath[h]]]
               /\ caller' = [caller EXCEPT ![c].pc = "extract"]
          ELSE /\ hmeta' = hmeta
               /\ caller' = [caller EXCEPT ![c].pc = "loadret"]
    /\ UNCHANGED <<raceFrame, disk, cache, loaded, probes>>

\* load_metadata: if self.metadata is None
LoadCheck(c) ==
    /\ caller[c].pc = "load"
    /\ caller' = [caller EXCEPT ![c].pc =
                     IF hmeta[caller[c].h] = NoMeta THEN "extract" ELSE "loadret"]
    /\ UNCHANGED <<raceFrame, disk, hmeta, cache, loaded, probes>>

\* load_metadata: self.metadata = self._extract_metadata(), which raises
\* when the probe fails
LoadExtract(c) ==
    /\ caller[c].pc = "extract"
    /\ LET h == caller[c].h
           l == load_metadata(NoMeta, HandlePath[h], disk[HandlePath[h]])
       IN /\ probes' = probes + l.probes
          /\ IF l.ok
             THEN /\ hmeta' = [hmeta EXCEPT ![h] = l.metadata]
                  /\ loaded' = loaded \cup {l.metadata}
                  /\ caller' = [caller EXCEPT ![c].pc = "loadret"]
             ELSE /\ hmeta' = hmeta
                  /\ loaded' = loaded
                  /\ caller' = [caller EXCEPT ![c].pc = "raised"]
    /\ UNCHANGED <<raceFrame, disk, cache>>

\* load_metadata: return self.metadata
LoadReturn(c) ==
    /\ caller[c].pc = "loadret"
    /\ caller' = [caller EXCEPT ![c] =
                     [@ EXCEPT !.pc = "store", !.metadata = hmeta[caller[c].h]]]
    /\ UNCHANGED <<raceFrame, disk, hmeta, cache, loaded, probes>>

\* self._cache[cache_key] = metadata; return metadata
Store(c) ==
    /\ caller[c].pc = "store"
    /\ cache' = [cache EXCEPT ![HandlePath[caller[c].h]] = caller[c].metadata]
    /\ caller' = [caller EXCEPT ![c] =
                     [@ EXCEPT !.pc = "done", !.returned = caller[c].metadata]]
    /\ UNCHANGED <<raceFrame, disk, hmeta, loaded, probes>>

NextRace ==
    \/ \E h \in Handles : RacePreload(h)
    \/ \E p \in Paths : FileRewritten(p)
    \/ \E c \in Callers : GetCheck(c)
    \/ \E c \in Callers : LoadCheck(c)
    \/ \E c \in Callers : LoadExtract(c)
    \/ \E c \in Callers : LoadReturn(c)
    \/ \E c \in Callers : Store(c)

SpecRace == InitRace /\ [][NextRace]_vars

CallerPath(c) == HandlePath[caller[c].h]
RaceOver == \A c \in Callers : caller[c].pc \in {"done", "raised"}

\* C22: two threads in get_or_load for one path, on a cache that began
\* empty: once both are through, each has received a complete metadata
\* object of that path built by one of the loads, the cache holds for the
\* path the object one of them received and nothing under any other path,
\* and the probe ran at most once per thread; a thread fails only when its
\* own probe failed.
C22_RaceIsDuplicateWork ==
    (RaceOver /\ CallerPath("A") = CallerPath("B")) =>
        LET p == CallerPath("A")
            got == {caller[c].returned : c \in {d \in Callers : caller[d].pc = "done"}}
        IN /\ \A c \in Callers :
                 /\ caller[c].pc = "raised" => ~disk[p].readable
                 /\ caller[c].pc = "done" =>
                       /\ caller[c].returned \in loaded
                       /\ caller[c].returned.file_path = p
           /\ got # {} => cache[p] \in got
           /\ got = {} => cache[p] = NoMeta
           /\ \A q \in Paths \ {p} : cache[q] = NoMeta
           /\ probes <= Cardinality(Callers)

\* both threads missed, both probed the same handle, and the file changed
\* between the two probes
C22_Witness ==
    /\ RaceOver
    /\ caller["A"].h = 1 /\ caller["B"].h = 1
    /\ caller["A"].pc = "done" /\ caller["B"].pc = "done"
    /\ probes = 2
    /\ caller["A"].returned # caller["B"].returned
    /\ cache["a.mp4"] = caller["A"].returned

Setting(cfg, name) ==
    CASE name = "max_workers" -> cfg.max_workers
      [] name = "video" -> cfg.enable_video
      [] name = "audio" -> cfg.enable_audio
      [] name = "fps" -> cfg.enable_fps

GivenFlag(o, name) ==
    CASE name = "max_workers" -> o.max_workers
      [] name = "video" -> o.video
      [] name = "audio" -> o.audio
      [] name = "fps" -> o.fps

\* C24: in the configuration the parallel command builds, a setting holds
\* the flag's value when the flag was given and the selected preset's value
\* when it was not; no other field differs from the preset.
C24_FlagsOverPresets ==
    Returns("parallel_analysis_command") =>
        LET o == call.arg
            preset == PresetConfig(o.mode, o.duration)
            cfg == ret[1].config
        IN /\ \A name \in {"max_workers", "video", "audio", "fps"} :
                 Setting(cfg, name) =
                     IF GivenFlag(o, name) # <<>>
                     THEN GivenFlag(o, name)[1]
                     ELSE Setting(preset, name)
           /\ Intervals(cfg) = Intervals(preset)
           /\ cfg.task_timeout = preset.task_timeout
           /\ cfg.enable_metadata_sharing = preset.enable_metadata_sharing
           /\ cfg.enable_result_streaming = preset.enable_result_streaming

\* ------------------------------------------------------- the sample points
\* the interval an analyzer configured by the engine samples at: its own,
\* widened by the video analyzer for files longer than an hour
SamplingInterval(t, duration) ==
    CASE t = "video" -> IF duration > 7200 THEN 30
                        ELSE IF duration > 3600 THEN 20 ELSE video_interval
      [] t = "audio" -> audio_interval
      [] t = "fps" -> fps_interval

\* C27: on a file of duration > 0 whose streams are present, analyze
\* returns a result with exactly one data point for each sample time
\* 0, i, 2i, ... below the duration (i the interval it samples at), in
\* ascending order; a sample whose measurement fails is there with its
\* fallback value, and no set of failing samples makes analyze fail.
C27_OnePointPerSampleTime ==
    (Returns("sampling") /\ call.arg.duration > 0) =>
        LET d == call.arg.duration
            r == ret[1]
            i == r.sample_interval
            pts == r.data_points
        IN /\ r.outcome = "ok"
           /\ i = SamplingInterval(call.arg.aspect, d)
           /\ \A s \in {x \in 0..(d - 1) : x % i = 0} :
                 Cardinality({k \in 1..Len(pts) : pts[k].timestamp = s}) = 1
           /\ \A k \in 1..Len(pts) :
                 /\ pts[k].timestamp \in 0..(d - 1)
                 /\ pts[k].timestamp % i = 0
                 /\ k > 1 => pts[k - 1].timestamp < pts[k].timestamp
                 /\ pts[k].fallback <=> (pts[k].timestamp \div i) \in call.arg.fails

C27_Witness ==
    /\ Returns("sampling")
    /\ call.arg.aspect = "video"
    /\ call.arg.duration = 41
    /\ call.arg.fails = {0, 2, 4}
    /\ ret[1].outcome = "ok"
    /\ Len(ret[1].data_points) = 5
    /\ ret[1].data_points[5] = DataPoint(40, TRUE)

\* ------------------------------------------------- the download cache alone
\* One DownloadCache on an empty directory serves add_to_cache,
\* get_cached_file and remove_from_cache calls, one at a time; time.time()
\* is later at each call.  Files of the directory may be deleted from
\* outside, between two calls and at a time of its own.
downloadFrame == <<config, disk, hmeta, cache, pc, cur, shared, tasks, tstate,
                   worker, outcome, tresult, timedOut, combined, error, probes,
                   preloaded, runs, call, ret, caller, loaded, hls>>

InitDownload ==
    /\ config = DefaultFlags
    /\ disk = [p \in Paths |-> BothStreams]
    /\ call = NoCall
    /\ ret = <<>>
    /\ caller = [c \in Callers |-> NoCaller]
    /\ loaded = {}
    /\ NoDownloads
    /\ hls = NoHls
    /\ Fresh

\* shutil.copy2 runs only when the cached path is free, and may fail
CopyOutcomes(url, file) ==
    IF file.exists /\ files[CachedPath(get_cache_key(url), file.ext)] = NoFile
    THEN BOOLEAN
    ELSE {TRUE}

AddToCache(url, file, copied) ==
    /\ clock < MaxClock
    /\ LET now == clock + 1
           r == add_to_cache(entries, files, now, url, file, copied)
       IN /\ clock' = now
          /\ entries' = r.entries
          /\ files' = r.files
          /\ last' = [op |-> "add", url |-> url, ok |-> r.ok, path |-> <<>>,
                      inserted |-> r.inserted, removed |-> r.removed]
    /\ UNCHANGED downloadFrame

GetCachedFile(url) ==
    /\ clock < MaxClock
    /\ LET now == clock + 1
           r == get_cached_file(entries, files, now, url)
       IN /\ clock' = now
          /\ entries' = r.entries
          /\ files' = r.files
          /\ last' = [NoOp EXCEPT !.op = "get", !.url = url,
                                  !.ok = (r.path # <<>>), !.path = r.path]
    /\ UNCHANGED downloadFrame

\* remove_from_cache
RemoveFromCache(url) ==
    /\ clock < MaxClock
    /\ LET r == _remove_entry(entries, files, get_cache_key(url))
       IN /\ clock' = clock + 1
          /\ entries' = r.entries
          /\ files' = r.files
          /\ last' = [NoOp EXCEPT !.op = "remove", !.url = url, !.ok = r.ok]
    /\ UNCHANGED downloadFrame

\* a file of the cache directory is deleted by someone else
DeletedOutside(p) ==
    /\ clock < MaxClock
    /\ files[p] # NoFile
    /\ clock' = clock + 1
    /\ files' = [files EXCEPT ![p] = NoFile]
    /\ last' = [NoOp EXCEPT !.op = "outside"]
    /\ UNCHANGED <<downloadFrame, entries>>

NextDownload ==
    \/ \E u \in Urls, f \in LocalFiles :
          \E c \in CopyOutcomes(u, f) : AddToCache(u, f, c)
    \/ \E u \in Urls : GetCachedFile(u)
    \/ \E u \in Urls : RemoveFromCache(u)
    \/ \E p \in CachePaths : DeletedOutside(p)

SpecDownload == InitDownload /\ [][NextDownload]_vars

\* add_to_cache has just returned True for its url
Added == last.op = "add" /\ last.ok

\* C28: right after add_to_cache(url, file) has returned True without
\* evicting anything, get_cached_file(url) returns the cached path of the
\* url, whatever was added before, the same url with a file of another
\* size included.
C28_AddThenGet ==
    (Added /\ last.removed = <<>>) =>
        get_cached_file(entries, files, clock + 1, last.url).path
            = <<entries[get_cache_key(last.url)].local_path>>

RECURSIVE SizeOfKeys(_, _, _)
SizeOfKeys(es, seq, n) ==
    IF n = 0 THEN 0 ELSE es[seq[n]].file_size + SizeOfKeys(es, seq, n - 1)

\* C29: after every add_to_cache that returns True the recorded sizes add
\* up to at most max_size_bytes; the entries evicted for that are the
\* least recently accessed ones, taken in ascending order of
\* last_accessed, and none is evicted once the total is within the limit.
C29_EvictsOldestUntilWithinLimit ==
    Added =>
        LET before == last.inserted
            removed == last.removed
            gone == {removed[i] : i \in 1..Len(removed)}
        IN /\ TotalSize(entries) <= max_size_bytes
           /\ gone \subseteq Present(before)
           /\ Cardinality(gone) = Len(removed)
           /\ entries = [k \in Keys |-> IF k \in gone THEN NoEntry ELSE before[k]]
           /\ \A i, j \in 1..Len(removed) :
                 i < j => before[removed[i]].last_accessed
                              <= before[removed[j]].last_accessed
           /\ \A k \in Present(before) \ gone, g \in gone :
                 before[g].last_accessed <= before[k].last_accessed
           /\ removed = <<>> <=> TotalSize(before) <= max_size_bytes
           /\ removed # <<>> =>
                 TotalSize(before) - SizeOfKeys(before, removed, Len(removed) - 1)
                     > max_size_bytes

\* two entries evicted by one add, the one read in between going last
C29_Witness ==
    /\ Added
    /\ last.url = "u3"
    /\ last.removed = <<"k2", "k1">>
    /\ Present(entries) = {"k3"}
    /\ TotalSize(last.inserted) > max_size_bytes

\* ------------------------------------------------------ download_hls_stream
\* One call of HLSDownloader.download_hls_stream: the size estimate, the
\* confirmation prompt for a large stream, the FFmpeg download, and the
\* manual segment download that download_hls_stream falls back to.
hlsFrame == <<config, disk, hmeta, cache, pc, cur, shared, tasks, tstate,
              worker, outcome, tresult, timedOut, combined, error, probes,
              preloaded, runs, call, ret, caller, loaded, downloadVars>>

OutputPath == "out.mp4"

\* values of estimate_download_time (0 when the estimate fails)
EstimatedSizes ==
    {0, 2000} \cup {b + e : b \in {500, 1000}, e \in (0 - MaxDelta)..MaxDelta}

InitHls ==
    /\ config = DefaultFlags
    /\ disk = [p \in Paths |-> BothStreams]
    /\ call = NoCall
    /\ ret = <<>>
    /\ caller = [c \in Callers |-> NoCaller]
    /\ loaded = {}
    /\ NoDownloads
    /\ hls = [NoHls EXCEPT !.pc = "estimate"]
    /\ Fresh

\* _download_with_ffmpeg: estimate_download_time and the size test
HlsEstimate(mb) ==
    /\ hls.pc = "estimate"
    /\ hls' = [hls EXCEPT !.estimated_size_mb = mb,
                          !.pc = IF mb > 1000 THEN "confirm" ELSE "ffmpeg"]
    /\ UNCHANGED hlsFrame

\* _download_with_ffmpeg: Confirm.ask; a refusal returns the unsuccessful
\* result to download_hls_stream
HlsConfirm(answer) ==
    /\ hls.pc = "confirm"
    /\ hls' = IF answer
              THEN [hls EXCEPT !.asked = TRUE, !.pc = "ffmpeg"]
              ELSE [hls EXCEPT !.asked = TRUE, !.declined = TRUE,
                               !.result = DownloadResult(FALSE, "None", "cancelled"),
                               !.pc = "ffmpeg_returned"]
    /\ UNCHANGED hlsFrame

\* _download_with_ffmpeg: the FFmpeg process runs and ends
HlsFfmpeg(ended) ==
    /\ hls.pc = "ffmpeg"
    /\ hls' = [hls EXCEPT
                  !.ffmpeg_started = TRUE,
                  !.result = IF ended = "ok"
                             THEN DownloadResult(TRUE, OutputPath, "none")
                             ELSE DownloadResult(FALSE, "None", ended),
                  !.pc = "ffmpeg_returned"]
    /\ UNCHANGED hlsFrame

\* download_hls_stream: if result.success: return result
HlsReturnFfmpeg ==
    /\ hls.pc = "ffmpeg_returned"
    /\ hls.result.success
    /\ hls' = [hls EXCEPT !.pc = "done"]
    /\ UNCHANGED hlsFrame

\* download_hls_stream: otherwise _download_segments_manually is called and
\* parses the playlist
HlsManualParse(n) ==
    /\ hls.pc = "ffmpeg_returned"
    /\ ~hls.result.success
    /\ hls' = IF n = 0
              THEN [hls EXCEPT !.manual_started = TRUE,
                               !.result = DownloadResult(FALSE, "None", "no segments"),
                               !.pc = "done"]
              ELSE [hls EXCEPT !.manual_started = TRUE, !.segments = n,
                               !.pc = "segments"]
    /\ UNCHANGED hlsFrame

\* _download_segments_manually: _download_segments fetches k of the segments
HlsDownloadSegments(k) ==
    /\ hls.pc = "segments"
    /\ k <= hls.segments
    /\ hls' = IF k = 0
              THEN [hls EXCEPT !.result = DownloadResult(FALSE, "None", "no files"),
                               !.pc = "done"]
              ELSE [hls EXCEPT !.segment_files = k, !.pc = "merge"]
    /\ UNCHANGED hlsFrame

\* _download_segments_manually: _merge_segments_with_init and the result
HlsMerge(success) ==
    /\ hls.pc = "merge"
    /\ hls' = [hls EXCEPT
                  !.result = IF success
                             THEN DownloadResult(TRUE, OutputPath, "none")
                             ELSE DownloadResult(FALSE, "None", "merge failed"),
                  !.pc = "done"]
    /\ UNCHANGED hlsFrame

NextHls ==
    \/ \E mb \in EstimatedSizes : HlsEstimate(mb)
    \/ \E answer \in BOOLEAN : HlsConfirm(answer)
    \/ \E ended \in {"ok", "exit code", "no output", "exception"} : HlsFfmpeg(ended)
    \/ HlsReturnFfmpeg
    \/ \E n \in 0..MaxSegments : HlsManualParse(n)
    \/ \E k \in 0..MaxSegments : HlsDownloadSegments(k)
    \/ \E success \in BOOLEAN : HlsMerge(success)

SpecHls == InitHls /\ [][NextHls]_vars

\* C30: once the user has declined the prompt for a stream estimated over
\* 1000 MB, neither the FFmpeg download nor the manual segment download is
\* started, and the call returns an unsuccessful DownloadResult.
C30_DeclineStopsDownload ==
    hls.declined =>
        /\ hls.estimated_size_mb > 1000
        /\ ~hls.ffmpeg_started
        /\ ~hls.manual_started
        /\ hls.segment_files = 0
        /\ hls.pc = "done" => ~hls.result.success

====
